---------------------------- MODULE Spec2Model ----------------------------
(***************************************************************************)
(* Model of the Claude Code CLI plugin: ClaudeCodeService (src/service.ts) *)
(* and ClaudeCodeModelProvider (src/provider.ts).                          *)
(*                                                                         *)
(* Strings are sequences of one-character strings, so that trim,           *)
(* toLowerCase, includes, startsWith and the two regular expressions of    *)
(* generateText are computed character by character.                       *)
(*                                                                         *)
(* One action is one task of the JavaScript event loop: the event that     *)
(* settles an awaited promise together with the synchronous continuation   *)
(* (all microtasks) that runs up to the next await.  Each call keeps a     *)
(* trace of the operations it performed, in program order.                 *)
(***************************************************************************)
EXTENDS Naturals, Integers, Sequences, FiniteSets

(***************************************************************************)
(* Bounds of the model                                                     *)
(***************************************************************************)
\* Number of call slots of the concurrent specification SpecConc.
MaxCalls == 2
\* Longest process output, in pieces of Pieces.
MaxPieces == 2

(***************************************************************************)
(* Program constants                                                       *)
(***************************************************************************)
DEFAULT_TIMEOUT == 120000
TIMEOUT == 120000
RESEARCH_TIMEOUT == 600000
MAX_PROMPT_LENGTH == 50000

(***************************************************************************)
(* String literals of the source                                           *)
(***************************************************************************)
\* '<response>'
TAG_OPEN ==
    <<"<", "r", "e", "s", "p", "o", "n", "s", "e", ">">>
\* '</response>'
TAG_CLOSE ==
    <<"<", "/", "r", "e", "s", "p", "o", "n", "s", "e", ">">>
\* '<response>\n' and '\n</response>' of the template literal
WRAP_HEAD ==
    <<"<", "r", "e", "s", "p", "o", "n", "s", "e", ">", "\n">>
WRAP_TAIL ==
    <<"\n", "<", "/", "r", "e", "s", "p", "o", "n", "s", "e", ">">>
\* 'ClaudeCodeError: '
MSG_CLAUDE_CODE_ERROR ==
    <<"C", "l", "a", "u", "d", "e", "C", "o", "d", "e", "E", "r", "r", "o", "r", ":", " ">>
\* 'Unknown error'
MSG_UNKNOWN_ERROR ==
    <<"U", "n", "k", "n", "o", "w", "n", " ", "e", "r", "r", "o", "r">>
\* 'EmptyOutput'
MSG_EMPTY_KIND ==
    <<"E", "m", "p", "t", "y", "O", "u", "t", "p", "u", "t">>
\* 'EmptyOutput: Claude Code returned nothing'
MSG_EMPTY_OUTPUT ==
    <<"E", "m", "p", "t", "y", "O", "u", "t", "p", "u", "t", ":", " ", "C", "l", "a", "u", "d", "e", " ", "C", "o", "d", "e", " ", "r", "e", "t", "u", "r", "n", "e", "d", " ", "n", "o", "t", "h", "i", "n", "g">>
\* 'ClaudeCodeTimeout: exceeded '
MSG_TIMEOUT_HEAD ==
    <<"C", "l", "a", "u", "d", "e", "C", "o", "d", "e", "T", "i", "m", "e", "o", "u", "t", ":", " ", "e", "x", "c", "e", "e", "d", "e", "d", " ">>
\* 'OAuth token expired. Run: claude login'
MSG_LOGIN ==
    <<"O", "A", "u", "t", "h", " ", "t", "o", "k", "e", "n", " ", "e", "x", "p", "i", "r", "e", "d", ".", " ", "R", "u", "n", ":", " ", "c", "l", "a", "u", "d", "e", " ", "l", "o", "g", "i", "n">>

\* The grave accent, which a TLA+ string literal cannot hold, as a character of its own.
BACKTICK == "grave-accent"

AUTH_ERROR_PATTERNS ==
    << <<"O", "A", "u", "t", "h", " ", "t", "o", "k", "e", "n", " ", "h", "a", "s", " ", "e", "x", "p", "i", "r", "e", "d">>,
       <<"A", "u", "t", "h", "e", "n", "t", "i", "c", "a", "t", "i", "o", "n", " ", "r", "e", "q", "u", "i", "r", "e", "d">>,
       <<"t", "o", "k", "e", "n", " ", "e", "x", "p", "i", "r", "e", "d">>,
       <<"r", "e", "f", "r", "e", "s", "h", " ", "t", "o", "k", "e", "n">>,
       <<"i", "n", "v", "a", "l", "i", "d", " ", "t", "o", "k", "e", "n">>,
       <<"u", "n", "a", "u", "t", "h", "o", "r", "i", "z", "e", "d">>,
       <<"P", "l", "e", "a", "s", "e", " ", "r", "u", "n", " ", BACKTICK, "c", "l", "a", "u", "d", "e", " ", "l", "o", "g", "i", "n", BACKTICK>>,
       <<"n", "o", "t", " ", "l", "o", "g", "g", "e", "d", " ", "i", "n">> >>

(***************************************************************************)
(* String primitives of JavaScript                                         *)
(***************************************************************************)
UPPER ==
    <<"A", "B", "C", "D", "E", "F", "G", "H", "I", "J", "K", "L", "M", "N", "O", "P", "Q", "R", "S", "T", "U", "V", "W", "X", "Y", "Z">>
LOWER ==
    <<"a", "b", "c", "d", "e", "f", "g", "h", "i", "j", "k", "l", "m", "n", "o", "p", "q", "r", "s", "t", "u", "v", "w", "x", "y", "z">>
DIGITS ==
    <<"0", "1", "2", "3", "4", "5", "6", "7", "8", "9">>

\* White space, as String.prototype.trim and the regular expression \s see it.
IsSpace(ch) == ch \in {" ", "\n", "\t", "\r"}

LowerChar(ch) ==
    IF \E i \in 1..Len(UPPER) : UPPER[i] = ch
    THEN LOWER[CHOOSE i \in 1..Len(UPPER) : UPPER[i] = ch]
    ELSE ch

\* String.prototype.toLowerCase
ToLowerCase(s) == [i \in 1..Len(s) |-> LowerChar(s[i])]

RECURSIVE TrimStart(_)
TrimStart(s) ==
    IF s # <<>> /\ IsSpace(Head(s)) THEN TrimStart(Tail(s)) ELSE s

RECURSIVE TrimEnd(_)
TrimEnd(s) ==
    IF s # <<>> /\ IsSpace(s[Len(s)]) THEN TrimEnd(SubSeq(s, 1, Len(s) - 1)) ELSE s

\* String.prototype.trim
Trim(s) == TrimEnd(TrimStart(s))

\* String.prototype.startsWith / endsWith / includes
StartsWith(s, p) == Len(s) >= Len(p) /\ SubSeq(s, 1, Len(p)) = p
EndsWith(s, p) == Len(s) >= Len(p) /\ SubSeq(s, Len(s) - Len(p) + 1, Len(s)) = p
Includes(s, p) ==
    \E i \in 0..(Len(s) - Len(p)) : SubSeq(s, i + 1, i + Len(p)) = p

\* Number of places at which p occurs in s.
Occurrences(s, p) ==
    Cardinality({i \in 0..(Len(s) - Len(p)) : SubSeq(s, i + 1, i + Len(p)) = p})

\* a || b on strings: the empty string is falsy.
OrElse(a, b) == IF a # <<>> THEN a ELSE b

\* Number to string, for the non-negative integers and the multiples of
\* 0.001 that timeout / 1000 produces.
RECURSIVE NatToString(_)
NatToString(n) ==
    IF n < 10 THEN <<DIGITS[n + 1]>>
    ELSE NatToString(n \div 10) \o <<DIGITS[(n % 10) + 1]>>

FractionDigits(r) ==
    LET d1 == DIGITS[(r \div 100) + 1]
        d2 == DIGITS[((r \div 10) % 10) + 1]
        d3 == DIGITS[(r % 10) + 1]
    IN  IF r % 10 # 0 THEN <<d1, d2, d3>>
        ELSE IF r % 100 # 0 THEN <<d1, d2>>
        ELSE <<d1>>

\* timeout / 1000 inside a template literal
SecondsToString(ms) ==
    IF ms % 1000 = 0 THEN NatToString(ms \div 1000)
    ELSE NatToString(ms \div 1000) \o <<".">> \o FractionDigits(ms % 1000)

(***************************************************************************)
(* types.ts                                                                *)
(***************************************************************************)
\* pattern.toLowerCase(), for each pattern
LowerPatterns ==
    [k \in 1..Len(AUTH_ERROR_PATTERNS) |-> ToLowerCase(AUTH_ERROR_PATTERNS[k])]

isAuthError_CaseSensitive(message) ==
    \E k \in 1..Len(AUTH_ERROR_PATTERNS) : Includes(message, AUTH_ERROR_PATTERNS[k])

isAuthError(message) ==
    LET lower == ToLowerCase(message)
    IN  \E k \in 1..Len(AUTH_ERROR_PATTERNS) : Includes(lower, LowerPatterns[k])


(***************************************************************************)
(* Values                                                                  *)
(***************************************************************************)
\* An exit code that is null or undefined (the code guards it with ??).
NullCode == -1
\* options.timeout (or the runtime's claudeCode.timeout setting) left out.
UNDEFINED_TIMEOUT == -1

\* Directories: a name and a number; the engine's are claude-code-<n>.
NO_DIR == <<"null", 0>>
UNDEFINED_PATH == <<"undefined", 0>>
EMPTY_PATH == <<"", 0>>
PROJECT_DIR == <<"/proj", 0>>
TempDirName(n) == <<"claude-code-", n>>

\* if (cwd): undefined and the empty string are falsy.
Truthy(cwd) == cwd \notin {UNDEFINED_PATH, EMPTY_PATH}

\* The outcome of a call: nothing yet, a ClaudeInvokeResult, a text, or a
\* raised Error with its message.  (duration is wall-clock time and is not
\* modelled.)
NoOutcome ==
    [kind |-> "none", output |-> <<>>, exitCode |-> 0, stderr |-> <<>>,
     text |-> <<>>, message |-> <<>>]
Result(output, exitCode, stderr) ==
    [NoOutcome EXCEPT !.kind = "result", !.output = output,
                      !.exitCode = exitCode, !.stderr = stderr]
Text(t) == [NoOutcome EXCEPT !.kind = "text", !.text = t]
Raised(m) == [NoOutcome EXCEPT !.kind = "error", !.message = m]

(***************************************************************************)
(* service.ts: ClaudeCodeService                                           *)
(***************************************************************************)
\* handleAuthError: the new flag and the number of reports logged.
handleAuthError_NoLatch(emitted) ==
    [authErrorEmitted |-> emitted, logs |-> IF emitted THEN 0 ELSE 1]

handleAuthError(emitted) ==
    [authErrorEmitted |-> TRUE, logs |-> IF emitted THEN 0 ELSE 1]

\* The condition of the auth branch of invoke.
AuthClassified_StderrOnly(output, stderr, exitCode) ==
    isAuthError(stderr)

AuthClassified(output, stderr, exitCode) ==
    isAuthError(stderr) \/ (exitCode # 0 /\ isAuthError(output))

\* An auth branch that keeps the output of the process.
InvokeResult_KeepOutput(output, stderr, exitCode) ==
    IF AuthClassified(output, stderr, exitCode)
    THEN Result(Trim(output), IF exitCode = NullCode THEN 1 ELSE exitCode,
                OrElse(stderr, MSG_LOGIN))
    ELSE Result(Trim(output), IF exitCode = NullCode THEN 0 ELSE exitCode,
                Trim(stderr))

\* The result invoke builds once the process and both streams have completed.
InvokeResult(output, stderr, exitCode) ==
    IF AuthClassified(output, stderr, exitCode)
    THEN Result(<<>>, IF exitCode = NullCode THEN 1 ELSE exitCode,
                OrElse(stderr, MSG_LOGIN))
    ELSE Result(Trim(output), IF exitCode = NullCode THEN 0 ELSE exitCode,
                Trim(stderr))

\* A catch block that lets the error through.
CatchResult_Rethrow(msg) == Raised(msg)

\* The result invoke builds in its catch block.
CatchResult(msg) == Result(<<>>, 1, msg)

\* The message of the timer's rejection.
TimeoutMessage_Millis(timeout) ==
    MSG_TIMEOUT_HEAD \o NatToString(timeout) \o <<"s">>

TimeoutMessage(timeout) ==
    MSG_TIMEOUT_HEAD \o SecondsToString(timeout) \o <<"s">>

\* .replace(/^\s*<response>\s*/i, '')
StripOpen(s) ==
    LET t == TrimStart(s)
    IN  IF StartsWith(ToLowerCase(t), TAG_OPEN)
        THEN TrimStart(SubSeq(t, Len(TAG_OPEN) + 1, Len(t)))
        ELSE s

\* .replace(/\s*<\/response>\s*$/i, '')
StripClose(s) ==
    LET t == TrimEnd(s)
    IN  IF EndsWith(ToLowerCase(t), TAG_CLOSE)
        THEN TrimEnd(SubSeq(t, 1, Len(t) - Len(TAG_CLOSE)))
        ELSE s

\* ClaudeCodeService.generateText, from the result of invoke on.
GenerateTextOutcome_NoEmptyCheck(result) ==
    IF result.exitCode # 0
    THEN Raised(MSG_CLAUDE_CODE_ERROR \o OrElse(result.stderr, MSG_UNKNOWN_ERROR))
    ELSE Text(Trim(StripClose(StripOpen(Trim(result.output)))))

GenerateTextOutcome(result) ==
    IF result.exitCode # 0
    THEN Raised(MSG_CLAUDE_CODE_ERROR \o OrElse(result.stderr, MSG_UNKNOWN_ERROR))
    ELSE IF result.output = <<>>
    THEN Raised(MSG_EMPTY_OUTPUT)
    ELSE Text(Trim(StripClose(StripOpen(Trim(result.output)))))

(***************************************************************************)
(* provider.ts: ClaudeCodeModelProvider.invokeDirectly                     *)
(***************************************************************************)
\* What invokeDirectly returns or throws once the race is won by the process.
\* A version that adds the wrapper without looking for one.
DirectOutcome_AlwaysWrap(output, errors, exitCode) ==
    IF exitCode # 0
    THEN Raised(MSG_CLAUDE_CODE_ERROR
                \o OrElse(Trim(errors), OrElse(Trim(output), MSG_UNKNOWN_ERROR)))
    ELSE IF Trim(output) = <<>>
    THEN Raised(MSG_EMPTY_OUTPUT)
    ELSE Text(WRAP_HEAD \o Trim(output) \o WRAP_TAIL)

DirectOutcome(output, errors, exitCode) ==
    IF exitCode # 0
    THEN Raised(MSG_CLAUDE_CODE_ERROR
                \o OrElse(Trim(errors), OrElse(Trim(output), MSG_UNKNOWN_ERROR)))
    ELSE IF Trim(output) = <<>>
    THEN Raised(MSG_EMPTY_OUTPUT)
    ELSE IF ~StartsWith(Trim(output), TAG_OPEN)
    THEN Text(WRAP_HEAD \o Trim(output) \o WRAP_TAIL)
    ELSE Text(Trim(output))

(***************************************************************************)
(* service.ts: ClaudeCodeService.checkAuth                                 *)
(***************************************************************************)
\* An optional value: undefined, or the value.
UNDEFINED == <<>>
Some(v) == <<v>>

\* The credentials file: missing, not JSON, the JSON null, or an object with
\* or without the claudeAiOauth section.
MissingFile ==
    [kind |-> "missing", oauth |-> FALSE, accessToken |-> UNDEFINED,
     expiresAt |-> UNDEFINED, subscriptionType |-> UNDEFINED]
MalformedFile == [MissingFile EXCEPT !.kind = "malformed"]
NullFile == [MissingFile EXCEPT !.kind = "null"]
NoOAuthFile == [MissingFile EXCEPT !.kind = "object"]
OAuthFile(accessToken, expiresAt, subscriptionType) ==
    [kind |-> "object", oauth |-> TRUE, accessToken |-> accessToken,
     expiresAt |-> expiresAt, subscriptionType |-> subscriptionType]

\* Messages of the errors readFile, JSON.parse and a property read of null raise.
ENOENT_ERROR == <<"E", "N", "O", "E", "N", "T">>
SYNTAX_ERROR == <<"J", "S", "O", "N", " ", "P", "a", "r", "s", "e", " ", "e", "r", "r", "o", "r">>
TYPE_ERROR == <<"n", "u", "l", "l", " ", "i", "s", " ", "n", "o", "t", " ", "a", "n", " ", "o", "b", "j", "e", "c", "t">>

\* What checkAuth hands back: nothing yet, an AuthStatus, or a raised error.
NoStatus ==
    [kind |-> "none", authenticated |-> FALSE, expiresAt |-> UNDEFINED,
     subscriptionType |-> UNDEFINED, needsLogin |-> FALSE, error |-> UNDEFINED]
AuthStatus(authenticated, expiresAt, subscriptionType, needsLogin, error) ==
    [kind |-> "status", authenticated |-> authenticated, expiresAt |-> expiresAt,
     subscriptionType |-> subscriptionType, needsLogin |-> needsLogin,
     error |-> error]
AuthRaised(msg) == [NoStatus EXCEPT !.kind = "raised", !.error = Some(msg)]

\* The catch block of checkAuth.
CheckAuthCatch_Rethrow(msg) == AuthRaised(msg)

\* A catch block that reports the failure without asking for a login.
CheckAuthCatch_NoLogin(msg) ==
    AuthStatus(FALSE, UNDEFINED, UNDEFINED, FALSE, Some(msg))

CheckAuthCatch(msg) == AuthStatus(FALSE, UNDEFINED, UNDEFINED, TRUE, Some(msg))

\* JavaScript truthiness of an optional number and of an optional string.
TruthyNumber(n) == n # UNDEFINED /\ n[1] # 0
TruthyString(t) == t # UNDEFINED /\ t[1] # <<>>

\* expiresAt && expiresAt < now, as the condition the two fields test.
IsExpired(expiresAt, now) == TruthyNumber(expiresAt) /\ expiresAt[1] < now

checkAuth(file, now) ==
    IF file.kind = "missing" THEN CheckAuthCatch(ENOENT_ERROR)
    ELSE IF file.kind = "malformed" THEN CheckAuthCatch(SYNTAX_ERROR)
    ELSE IF file.kind = "null" THEN CheckAuthCatch(TYPE_ERROR)
    ELSE IF ~file.oauth THEN AuthStatus(FALSE, UNDEFINED, UNDEFINED, TRUE, UNDEFINED)
    ELSE IF ~TruthyString(file.accessToken)
    THEN AuthStatus(FALSE, UNDEFINED, UNDEFINED, TRUE, UNDEFINED)
    ELSE AuthStatus(~IsExpired(file.expiresAt, now), file.expiresAt,
                    file.subscriptionType, IsExpired(file.expiresAt, now),
                    UNDEFINED)

(***************************************************************************)
(* Prompt truncation: prompt.slice(-MAX_PROMPT_LENGTH)                     *)
(***************************************************************************)
Min(a, b) == IF a < b THEN a ELSE b
Max(a, b) == IF a > b THEN a ELSE b

\* String.prototype.slice(start) on a string of len characters: the
\* positions [from, to) of the original that the result holds.
Slice_Head(len, start) ==
    [from |-> 0, to |-> Min(len, IF start < 0 THEN 0 - start ELSE start)]

Slice(len, start) ==
    [from |-> IF start < 0 THEN Max(len + start, 0) ELSE Min(start, len),
     to |-> len]

(***************************************************************************)
(* service.ts: the argument vector of invoke                               *)
(***************************************************************************)
ARG_CLAUDE == <<"c", "l", "a", "u", "d", "e">>
ARG_P == <<"-", "p">>
ARG_MODEL == <<"-", "-", "m", "o", "d", "e", "l">>
ARG_ALLOWED_TOOLS ==
    <<"-", "-", "a", "l", "l", "o", "w", "e", "d", "T", "o", "o", "l", "s">>
ARG_DISALLOWED_TOOLS ==
    <<"-", "-", "d", "i", "s", "a", "l", "l", "o", "w", "e", "d", "T", "o", "o", "l", "s">>
SONNET == <<"s", "o", "n", "n", "e", "t">>
OPUS == <<"o", "p", "u", "s">>
HAIKU == <<"h", "a", "i", "k", "u">>

\* allowedTools / disallowedTools, of type string[] | string: UNDEFINED, or
\* Some of a string or of an array of names.
StringTools(text) == [isArray |-> FALSE, names |-> <<text>>]
ArrayTools(names) == [isArray |-> TRUE, names |-> names]

\* if (allowedTools): every array is truthy, a string unless it is empty.
TruthyTools(tools) ==
    tools # UNDEFINED /\ (tools[1].isArray \/ tools[1].names[1] # <<>>)

\* Array.prototype.join(',')
RECURSIVE Join(_)
Join(names) ==
    IF names = <<>> THEN <<>>
    ELSE IF Len(names) = 1 THEN names[1]
    ELSE names[1] \o <<",">> \o Join(Tail(names))

\* Array.isArray(tools) ? tools.join(',') : tools
SerializeTools(tools) ==
    IF tools[1].isArray THEN Join(tools[1].names) ELSE tools[1].names[1]

\* The options of invoke that reach the argument vector; the prompt is
\* given by its length.
NoOptions ==
    [length |-> 0, model |-> UNDEFINED, allowedTools |-> UNDEFINED,
     disallowedTools |-> UNDEFINED]

\* const args = [...]; args.push(...): the third element is the truncated
\* prompt, given by the positions of the prompt it holds.
InvokeArgs(options) ==
    LET model == IF options.model = UNDEFINED THEN SONNET ELSE options.model[1]
        base == <<ARG_CLAUDE, ARG_P, Slice(options.length, 0 - MAX_PROMPT_LENGTH),
                  ARG_MODEL, model>>
        allowed == IF TruthyTools(options.allowedTools)
                   THEN <<ARG_ALLOWED_TOOLS, SerializeTools(options.allowedTools)>>
                   ELSE <<>>
        disallowed == IF TruthyTools(options.disallowedTools)
                      THEN <<ARG_DISALLOWED_TOOLS,
                             SerializeTools(options.disallowedTools)>>
                      ELSE <<>>
    IN  base \o allowed \o disallowed

(***************************************************************************)
(* State                                                                   *)
(***************************************************************************)
VARIABLES
    call,                  \* per call slot: the locals of invoke / invokeDirectly
    disk,                  \* the directories that exist
    authErrorEmitted,      \* ClaudeCodeService.authErrorEmitted, per instance
    authLogs,              \* per instance: how often the auth report was logged
    defaultTimeout,        \* ClaudeCodeService.defaultTimeout, per instance
    providerInstance,      \* index.ts: the module-level provider
    providersConstructed,  \* how many ClaudeCodeModelProvider were constructed
    authCheck,             \* the last checkAuth: credentials file, clock, status
    classified,            \* the last isAuthError: message and verdict
    truncated,             \* the last truncation: prompt length and slice
    wrapper,               \* the last text wrapped, stripped and wrapped again
    spawnArgs              \* the last argument vector invoke built

\* The records of the last checkAuth, isAuthError and prompt truncation.
pureVars == <<authCheck, classified, truncated, wrapper, spawnArgs>>

vars == <<call, disk, authErrorEmitted, authLogs, defaultTimeout,
          providerInstance, providersConstructed, authCheck, classified,
          truncated, wrapper, spawnArgs>>

Calls == 1..MaxCalls
Instances == {"svcA", "svcB"}
NO_SERVICE == "none"
PLUGIN_DEFAULT_TIMEOUT == 120000

\* Messages of the errors the environment raises.
MKDTEMP_ERROR == <<"E", "A", "C", "C", "E", "S">>
SPAWN_ERROR == <<"E", "N", "O", "E", "N", "T">>
STREAM_ERROR == <<"E", "P", "I", "P", "E">>
RM_ERROR == <<"E", "B", "U", "S", "Y">>

IdleCall ==
    [pc |-> "idle", entry |-> "none", path |-> "none", inst |-> NO_SERVICE,
     cwd |-> UNDEFINED_PATH, timeout |-> 0, settings |-> UNDEFINED_TIMEOUT,
     tempDir |-> NO_DIR, proc |-> "none", timer |-> "none", timeoutId |-> FALSE,
     outDone |-> FALSE, errDone |-> FALSE, out |-> <<>>, err |-> <<>>, code |-> 0,
     winner |-> "none", pending |-> NoOutcome, outcome |-> NoOutcome,
     rmFailed |-> FALSE, trace |-> <<>>]

Init ==
    /\ call = [c \in Calls |-> IdleCall]
    /\ disk = {PROJECT_DIR}
    /\ authErrorEmitted = [i \in Instances |-> FALSE]
    /\ authLogs = [i \in Instances |-> 0]
    /\ defaultTimeout = [i \in Instances |->
                            IF i = "svcA" THEN DEFAULT_TIMEOUT ELSE 5000]
    /\ providerInstance = [constructed |-> FALSE, timeout |-> 0]
    /\ providersConstructed = 0
    /\ authCheck = [file |-> MissingFile, now |-> 0, status |-> NoStatus]
    /\ classified = [message |-> <<>>, called |-> FALSE, verdict |-> FALSE]
    /\ truncated = [length |-> 0, called |-> FALSE, slice |-> [from |-> 0, to |-> 0]]
    /\ wrapper = [output |-> <<>>, called |-> FALSE, wrapped |-> NoOutcome,
                  stripped |-> NoOutcome, rewrapped |-> NoOutcome]
    /\ spawnArgs = [called |-> FALSE, options |-> NoOptions, args |-> <<>>]

(***************************************************************************)
(* The synchronous pieces of invoke and invokeDirectly                     *)
(***************************************************************************)
\* clearTimeout on a timer: a pending timer never fires; a fired one is left.
ClearTimeout_Noop(timer) == timer

ClearTimeout(timer) == IF timer = "pending" THEN "cleared" ELSE timer

\* The directory the finally block removes (NO_DIR: none).
CleanupDir_WorkDir(r) == IF Truthy(r.cwd) THEN r.cwd ELSE r.tempDir

CleanupDir(r) == r.tempDir

\* What the entry point hands to its caller, given what invoke or
\* invokeDirectly hands back.
EntryOutcome(r) ==
    IF r.path = "service" /\ r.entry \in {"generateText", "model"}
    THEN GenerateTextOutcome(r.pending)
    ELSE r.pending

\* The call returns (or throws) to its caller.
Return(r) ==
    [r EXCEPT !.pc = "done", !.outcome = EntryOutcome(r),
              !.trace = Append(@, "return")]

\* What the outcome is when the removal of the workspace has failed.
AfterRm_Propagate(r, ok) ==
    IF ok THEN r
    ELSE [r EXCEPT !.rmFailed = TRUE, !.pending = Raised(RM_ERROR)]

AfterRm(r, ok) ==
    IF ok THEN r
    ELSE [r EXCEPT !.rmFailed = TRUE, !.trace = Append(@, "warn")]

\* A finally block that starts the removal and returns without awaiting it.
Finally_Unawaited(r) ==
    LET r1 == [r EXCEPT
                 !.timer = IF r.timeoutId THEN ClearTimeout(@) ELSE @,
                 !.trace = @ \o (IF r.timeoutId THEN <<"clearTimeout">> ELSE <<>>)
                             \o (IF r.proc # "none" THEN <<"kill">> ELSE <<>>)]
    IN  IF CleanupDir(r1) # NO_DIR
        THEN Return([r1 EXCEPT !.trace = Append(@, "rm")])
        ELSE Return(r1)

\* The finally block up to its await of rm, or to the return when there is
\* nothing to remove.
Finally(r) ==
    LET r1 == [r EXCEPT
                 !.timer = IF r.timeoutId THEN ClearTimeout(@) ELSE @,
                 !.trace = @ \o (IF r.timeoutId THEN <<"clearTimeout">> ELSE <<>>)
                             \o (IF r.proc # "none" THEN <<"kill">> ELSE <<>>)]
    IN  IF CleanupDir(r1) # NO_DIR
        THEN [r1 EXCEPT !.pc = "rm", !.trace = Append(@, "rm")]
        ELSE Return(r1)

\* Bun.spawn succeeded: the timer is set and the race awaited.
Spawned(r) ==
    [r EXCEPT !.pc = "race", !.proc = "running", !.timer = "pending",
              !.timeoutId = TRUE, !.trace = @ \o <<"spawn", "setTimeout">>]

\* A completion path that classifies first and leaves the timer to finally.
Complete_LateClear(r) ==
    LET auth == r.path = "service" /\ AuthClassified(r.out, r.err, r.code)
        r1 == [r EXCEPT
                 !.winner = "completed",
                 !.trace = @ \o <<"classify">>
                             \o (IF auth THEN <<"handleAuthError">> ELSE <<>>),
                 !.pending = IF r.path = "service"
                             THEN InvokeResult(r.out, r.err, r.code)
                             ELSE DirectOutcome(r.out, r.err, r.code)]
    IN  Finally(r1)

\* The race was won by Promise.all: clearTimeout, classification, finally.
Complete(r) ==
    LET auth == r.path = "service" /\ AuthClassified(r.out, r.err, r.code)
        r1 == [r EXCEPT
                 !.winner = "completed",
                 !.timer = ClearTimeout(@),
                 !.timeoutId = FALSE,
                 !.trace = @ \o <<"clearTimeout", "classify">>
                             \o (IF auth THEN <<"handleAuthError">> ELSE <<>>),
                 !.pending = IF r.path = "service"
                             THEN InvokeResult(r.out, r.err, r.code)
                             ELSE DirectOutcome(r.out, r.err, r.code)]
    IN  Finally(r1)

\* A catch block whose rethrow wraps the error in a new one.
Catch_Wrapped(r, winner, msg) ==
    LET auth == r.path = "service" /\ isAuthError(msg)
        r1 == [r EXCEPT
                 !.winner = winner,
                 !.outDone = FALSE, !.errDone = FALSE,
                 !.out = <<>>, !.err = <<>>, !.code = 0,
                 !.trace = @ \o <<"catch">>
                             \o (IF auth THEN <<"handleAuthError">> ELSE <<>>),
                 !.pending = IF r.path = "service" THEN CatchResult(msg)
                             ELSE Raised(MSG_CLAUDE_CODE_ERROR \o msg)]
    IN  Finally(r1)

\* The catch block: invoke turns the error into a result, invokeDirectly
\* rethrows it.  What the streams had delivered so far is never read again.
Catch(r, winner, msg) ==
    LET auth == r.path = "service" /\ isAuthError(msg)
        r1 == [r EXCEPT
                 !.winner = winner,
                 !.outDone = FALSE, !.errDone = FALSE,
                 !.out = <<>>, !.err = <<>>, !.code = 0,
                 !.trace = @ \o <<"catch">>
                             \o (IF auth THEN <<"handleAuthError">> ELSE <<>>),
                 !.pending = IF r.path = "service" THEN CatchResult(msg)
                             ELSE Raised(msg)]
    IN  Finally(r1)

AllDone(r) == r.outDone /\ r.errDone /\ r.proc = "exited"

Count(seq, e) == Cardinality({i \in 1..Len(seq) : seq[i] = e})

\* A report flag that all instances share.
Commit_SharedFlag(c, r) ==
    /\ call' = [call EXCEPT ![c] = r]
    /\ IF Count(r.trace, "handleAuthError") > Count(call[c].trace, "handleAuthError")
       THEN LET h == handleAuthError(authErrorEmitted[r.inst])
            IN  /\ authErrorEmitted' = [i \in Instances |-> h.authErrorEmitted]
                /\ authLogs' = [authLogs EXCEPT ![r.inst] = @ + h.logs]
       ELSE UNCHANGED <<authErrorEmitted, authLogs>>

\* Slot c becomes r; handleAuthError runs when r's trace records it.
Commit(c, r) ==
    /\ call' = [call EXCEPT ![c] = r]
    /\ IF Count(r.trace, "handleAuthError") > Count(call[c].trace, "handleAuthError")
       THEN LET h == handleAuthError(authErrorEmitted[r.inst])
            IN  /\ authErrorEmitted' =
                      [authErrorEmitted EXCEPT ![r.inst] = h.authErrorEmitted]
                /\ authLogs' = [authLogs EXCEPT ![r.inst] = @ + h.logs]
       ELSE UNCHANGED <<authErrorEmitted, authLogs>>

\* invoke from its entry to its first await.
InvokeStart(r0, spawnOk) ==
    IF Truthy(r0.cwd)
    THEN IF spawnOk THEN Spawned(r0)
         ELSE Catch([r0 EXCEPT !.trace = Append(@, "spawnThrows")],
                    "internal", SPAWN_ERROR)
    ELSE [r0 EXCEPT !.pc = "mkdtemp"]

(***************************************************************************)
(* Entry points                                                            *)
(***************************************************************************)
\* ClaudeCodeService.invoke(options)
Invoke(c, inst, cwd, t, spawnOk) ==
    /\ call[c].pc = "idle"
    /\ Commit(c, InvokeStart(
            [IdleCall EXCEPT !.entry = "invoke", !.path = "service",
                !.inst = inst, !.cwd = cwd,
                !.timeout = IF t = UNDEFINED_TIMEOUT THEN defaultTimeout[inst] ELSE t],
            spawnOk))
    /\ UNCHANGED <<disk, defaultTimeout, providerInstance, providersConstructed>>
    /\ UNCHANGED pureVars

\* ClaudeCodeService.research(prompt, options)
Research(c, inst, cwd, t, spawnOk) ==
    /\ call[c].pc = "idle"
    /\ Commit(c, InvokeStart(
            [IdleCall EXCEPT !.entry = "research", !.path = "service",
                !.inst = inst, !.cwd = cwd,
                !.timeout = IF t \in {UNDEFINED_TIMEOUT, 0} THEN RESEARCH_TIMEOUT ELSE t],
            spawnOk))
    /\ UNCHANGED <<disk, defaultTimeout, providerInstance, providersConstructed>>
    /\ UNCHANGED pureVars

\* ClaudeCodeService.generateText(prompt, model)
GenerateText(c, inst) ==
    /\ call[c].pc = "idle"
    /\ Commit(c, InvokeStart(
            [IdleCall EXCEPT !.entry = "generateText", !.path = "service",
                !.inst = inst, !.timeout = defaultTimeout[inst]],
            TRUE))
    /\ UNCHANGED <<disk, defaultTimeout, providerInstance, providersConstructed>>
    /\ UNCHANGED pureVars

\* new ClaudeCodeModelProvider({ timeout }) with the timeout of the settings.
NewProvider(settingsTimeout) ==
    [constructed |-> TRUE,
     timeout |-> LET t == IF settingsTimeout \in {UNDEFINED_TIMEOUT, 0}
                          THEN PLUGIN_DEFAULT_TIMEOUT
                          ELSE settingsTimeout
                 IN  IF t = 0 THEN TIMEOUT ELSE t]

\* index.ts getProvider: the module-level provider after the call.
getProvider_PerCall(instance, settingsTimeout) == NewProvider(settingsTimeout)

getProvider(instance, settingsTimeout) ==
    IF instance.constructed THEN instance ELSE NewProvider(settingsTimeout)

\* ClaudeCodeModelProvider.generateText: delegate to the runtime's service
\* when there is one, else invoke the CLI directly.
ProviderPath_AlwaysDirect(svc) == "direct"

ProviderPath(svc) == IF svc # NO_SERVICE THEN "service" ELSE "direct"

\* index.ts: a TEXT_LARGE / TEXT_SMALL handler: getProvider, then
\* ClaudeCodeModelProvider.generateText, which delegates to the runtime's
\* service (svc) or invokes the CLI directly (svc = NO_SERVICE).
ModelCall(c, settingsTimeout, svc) ==
    /\ call[c].pc = "idle"
    /\ providerInstance' = getProvider(providerInstance, settingsTimeout)
    /\ providersConstructed' =
          IF providerInstance' = providerInstance /\ providerInstance.constructed
          THEN providersConstructed
          ELSE providersConstructed + 1
    /\ Commit(c,
          IF ProviderPath(svc) = "service"
          THEN InvokeStart(
                  [IdleCall EXCEPT !.entry = "model", !.path = "service",
                      !.settings = settingsTimeout,
                      !.inst = svc, !.timeout = defaultTimeout[svc]], TRUE)
          ELSE [IdleCall EXCEPT !.entry = "model", !.path = "direct",
                   !.settings = settingsTimeout, !.inst = svc,
                   !.timeout = providerInstance'.timeout, !.pc = "mkdtemp"])
    /\ UNCHANGED <<disk, defaultTimeout>>
    /\ UNCHANGED pureVars

(***************************************************************************)
(* Events                                                                  *)
(***************************************************************************)
\* A mkdtemp that hands out one and the same name.
FreshDir_Fixed == TempDirName(1)

\* mkdtemp names a directory that does not exist.
FreshDir ==
    TempDirName(CHOOSE n \in 1..MaxCalls :
                   /\ TempDirName(n) \notin disk
                   /\ \A m \in 1..(n - 1) : TempDirName(m) \in disk)

\* mkdtemp resolves; Bun.spawn then succeeds or throws.
MkdtempOk(c, spawnOk) ==
    /\ call[c].pc = "mkdtemp"
    /\ LET r1 == [call[c] EXCEPT !.tempDir = FreshDir,
                                 !.trace = Append(@, "mkdtemp")]
       IN  Commit(c, IF spawnOk THEN Spawned(r1)
                     ELSE Catch([r1 EXCEPT !.trace = Append(@, "spawnThrows")],
                                "internal", SPAWN_ERROR))
    /\ disk' = disk \cup {FreshDir}
    /\ UNCHANGED <<defaultTimeout, providerInstance, providersConstructed>>
    /\ UNCHANGED pureVars

\* mkdtemp rejects.
MkdtempFails(c) ==
    /\ call[c].pc = "mkdtemp"
    /\ Commit(c, Catch(call[c], "internal", MKDTEMP_ERROR))
    /\ UNCHANGED <<disk, defaultTimeout, providerInstance, providersConstructed>>
    /\ UNCHANGED pureVars

\* new Response(proc.stdout).text() resolves.
StdoutEnd(c, text) ==
    /\ call[c].pc = "race"
    /\ ~call[c].outDone
    /\ LET r1 == [call[c] EXCEPT !.outDone = TRUE, !.out = text]
       IN  Commit(c, IF AllDone(r1) THEN Complete(r1) ELSE r1)
    /\ UNCHANGED <<disk, defaultTimeout, providerInstance, providersConstructed>>
    /\ UNCHANGED pureVars

\* new Response(proc.stderr).text() resolves.
StderrEnd(c, text) ==
    /\ call[c].pc = "race"
    /\ ~call[c].errDone
    /\ LET r1 == [call[c] EXCEPT !.errDone = TRUE, !.err = text]
       IN  Commit(c, IF AllDone(r1) THEN Complete(r1) ELSE r1)
    /\ UNCHANGED <<disk, defaultTimeout, providerInstance, providersConstructed>>
    /\ UNCHANGED pureVars

\* The child process exits; proc.exited resolves.  After the race is over
\* the code is no longer read.
ProcExited(c, code) ==
    /\ call[c].proc = "running"
    /\ LET r1 == [call[c] EXCEPT !.proc = "exited",
                     !.code = IF call[c].pc = "race" THEN code ELSE @]
       IN  Commit(c, IF r1.pc = "race" /\ AllDone(r1) THEN Complete(r1) ELSE r1)
    /\ UNCHANGED <<disk, defaultTimeout, providerInstance, providersConstructed>>
    /\ UNCHANGED pureVars

\* One of the stream reads rejects.
StreamError(c) ==
    /\ call[c].pc = "race"
    /\ ~(call[c].outDone /\ call[c].errDone)
    /\ Commit(c, Catch(call[c], "internal", STREAM_ERROR))
    /\ UNCHANGED <<disk, defaultTimeout, providerInstance, providersConstructed>>
    /\ UNCHANGED pureVars

\* A timer callback that kills the process and does not reject.
TimerFire_KillOnly(c) ==
    /\ call[c].timer = "pending"
    /\ Commit(c, [call[c] EXCEPT !.timer = "fired",
                     !.trace = @ \o <<"timerFired", "kill">>])
    /\ UNCHANGED <<disk, defaultTimeout, providerInstance, providersConstructed>>
    /\ UNCHANGED pureVars

\* The timer fires: its callback kills the process and rejects.
TimerFire(c) ==
    /\ call[c].timer = "pending"
    /\ LET r1 == [call[c] EXCEPT !.timer = "fired",
                     !.trace = @ \o <<"timerFired", "kill", "reject">>]
       IN  Commit(c, IF r1.pc = "race"
                     THEN Catch(r1, "timeout", TimeoutMessage(r1.timeout))
                     ELSE r1)
    /\ UNCHANGED <<disk, defaultTimeout, providerInstance, providersConstructed>>
    /\ UNCHANGED pureVars

\* rm resolves (ok) or rejects; the call then returns.
RmDone(c, ok) ==
    /\ call[c].pc = "rm"
    /\ Commit(c, Return(AfterRm(call[c], ok)))
    /\ disk' = IF ok THEN disk \ {CleanupDir(call[c])} ELSE disk
    /\ UNCHANGED <<defaultTimeout, providerInstance, providersConstructed>>
    /\ UNCHANGED pureVars

\* checkAuth() with the credentials file and the clock as they are.
CheckAuth(file, now) ==
    /\ authCheck' = [file |-> file, now |-> now, status |-> checkAuth(file, now)]
    /\ UNCHANGED <<call, disk, authErrorEmitted, authLogs, defaultTimeout,
                   providerInstance, providersConstructed, classified, truncated,
                   wrapper, spawnArgs>>

\* isAuthError(message)
Classify(message) ==
    /\ classified' = [message |-> message, called |-> TRUE,
                      verdict |-> isAuthError(message)]
    /\ UNCHANGED <<call, disk, authErrorEmitted, authLogs, defaultTimeout,
                   providerInstance, providersConstructed, authCheck, truncated,
                   wrapper, spawnArgs>>

\* const truncated = prompt.slice(-MAX_PROMPT_LENGTH), for a prompt of
\* length characters.
Truncate(length) ==
    /\ truncated' = [length |-> length, called |-> TRUE,
                     slice |-> Slice(length, 0 - MAX_PROMPT_LENGTH)]
    /\ UNCHANGED <<call, disk, authErrorEmitted, authLogs, defaultTimeout,
                   providerInstance, providersConstructed, authCheck, classified,
                   wrapper, spawnArgs>>

\* The provider's direct path on a process that exits with 0 and prints
\* output; then ClaudeCodeService.generateText, and the direct path again,
\* each on a process that exits with 0 and prints what the first returned.
WrapStrip(output) ==
    /\ wrapper' =
          LET w == DirectOutcome(output, <<>>, 0)
          IN  [output |-> output, called |-> TRUE, wrapped |-> w,
               stripped |-> IF w.kind = "text"
                            THEN GenerateTextOutcome(InvokeResult(w.text, <<>>, 0))
                            ELSE NoOutcome,
               rewrapped |-> IF w.kind = "text"
                             THEN DirectOutcome(w.text, <<>>, 0)
                             ELSE NoOutcome]
    /\ UNCHANGED <<call, disk, authErrorEmitted, authLogs, defaultTimeout,
                   providerInstance, providersConstructed, authCheck, classified,
                   truncated, spawnArgs>>

\* invoke(options), up to the argument vector it hands to Bun.spawn.
BuildArgs(options) ==
    /\ spawnArgs' = [called |-> TRUE, options |-> options,
                     args |-> InvokeArgs(options)]
    /\ UNCHANGED <<call, disk, authErrorEmitted, authLogs, defaultTimeout,
                   providerInstance, providersConstructed, authCheck, classified,
                   truncated, wrapper>>

(***************************************************************************)
(* Inputs                                                                  *)
(***************************************************************************)
Pieces == {TAG_OPEN, TAG_CLOSE, <<" ">>, <<"o", "k">>,
           <<"U", "n", "a", "u", "t", "h", "o", "r", "i", "z", "e", "d">>}

RECURSIVE TextsOf(_)
TextsOf(n) ==
    IF n = 0 THEN {<<>>}
    ELSE LET S == TextsOf(n - 1) IN S \cup {s \o p : s \in S, p \in Pieces}

StdoutTexts == TextsOf(MaxPieces)
StderrTexts == {<<>>, <<" ">>, <<"b", "o", "o", "m", "\n">>,
                <<"T", "o", "k", "e", "n", " ", "E", "x", "p", "i", "r", "e", "d">>}
ExitCodes == {0, 1, NullCode}
CwdOptions == {UNDEFINED_PATH, EMPTY_PATH, PROJECT_DIR}
TimeoutOptions == {UNDEFINED_TIMEOUT, 1500}
SettingsTimeouts == {UNDEFINED_TIMEOUT, 2500}

(***************************************************************************)
(* Spec: one call at a time, every entry point, the full input sets        *)
(***************************************************************************)
Next ==
    \/ \E cwd \in CwdOptions, t \in TimeoutOptions, spawnOk \in BOOLEAN :
          Invoke(1, "svcA", cwd, t, spawnOk)
    \/ \E cwd \in {EMPTY_PATH, PROJECT_DIR}, t \in TimeoutOptions,
          spawnOk \in BOOLEAN : Research(1, "svcA", cwd, t, spawnOk)
    \/ GenerateText(1, "svcA")
    \/ \E st \in SettingsTimeouts, svc \in {"svcA", NO_SERVICE} :
          ModelCall(1, st, svc)
    \/ \E spawnOk \in BOOLEAN : MkdtempOk(1, spawnOk)
    \/ MkdtempFails(1)
    \/ \E text \in StdoutTexts : StdoutEnd(1, text)
    \/ \E text \in StderrTexts : StderrEnd(1, text)
    \/ \E code \in ExitCodes : ProcExited(1, code)
    \/ StreamError(1)
    \/ TimerFire(1)
    \/ \E ok \in BOOLEAN : RmDone(1, ok)

Spec == Init /\ [][Next]_vars

(***************************************************************************)
(* SpecConc: MaxCalls calls, interleaved in every way, on small inputs     *)
(***************************************************************************)
ConcStdout == {<<"o", "k">>}
ConcStderr == {<<>>, <<"T", "o", "k", "e", "n", " ", "E", "x", "p", "i", "r", "e", "d">>}
ConcCodes == {1}

\* Within one call the streams end in a fixed order, stdout, stderr, exit
\* (Spec covers every order), and the process is followed until the race is
\* over; the calls interleave with each other in every way.
NextConc ==
    \E c \in Calls :
        \/ \E inst \in Instances : Invoke(c, inst, UNDEFINED_PATH, UNDEFINED_TIMEOUT, TRUE)
        \/ MkdtempOk(c, TRUE)
        \/ \E text \in ConcStdout : StdoutEnd(c, text)
        \/ \E text \in ConcStderr : call[c].outDone /\ StderrEnd(c, text)
        \/ \E code \in ConcCodes :
              call[c].pc = "race" /\ call[c].errDone /\ ProcExited(c, code)
        \/ TimerFire(c)
        \/ \E ok \in BOOLEAN : RmDone(c, ok)

SpecConc == Init /\ [][NextConc]_vars

(***************************************************************************)
(* SpecLive: one call on small inputs; the timer fires unless it is        *)
(* cancelled, and mkdtemp and rm settle.  Nothing makes the process exit   *)
(* or its streams end.                                                     *)
(***************************************************************************)
LiveStdout == {<<>>, <<"o", "k">>}
LiveStderr == {<<>>, <<"T", "o", "k", "e", "n", " ", "E", "x", "p", "i", "r", "e", "d">>}
LiveCodes == {0, 1}

NextLive ==
    \/ \E cwd \in {UNDEFINED_PATH, PROJECT_DIR}, spawnOk \in BOOLEAN :
          Invoke(1, "svcA", cwd, 1500, spawnOk)
    \/ GenerateText(1, "svcA")
    \/ \E st \in SettingsTimeouts, svc \in {"svcA", NO_SERVICE} :
          ModelCall(1, st, svc)
    \/ \E spawnOk \in BOOLEAN : MkdtempOk(1, spawnOk)
    \/ MkdtempFails(1)
    \/ \E text \in LiveStdout : StdoutEnd(1, text)
    \/ \E text \in LiveStderr : StderrEnd(1, text)
    \/ \E code \in LiveCodes : ProcExited(1, code)
    \/ StreamError(1)
    \/ TimerFire(1)
    \/ \E ok \in BOOLEAN : RmDone(1, ok)

\* setTimeout runs its callback unless clearTimeout came first; the file
\* system settles mkdtemp and rm.  TimerFire is enabled exactly while the
\* timer is pending and RmDone exactly while rm is awaited, and each of them
\* ends that, so weak fairness of the two, WF_vars(TimerFire(1)) and
\* WF_vars(\E ok \in BOOLEAN : RmDone(1, ok)), is written as the condition
\* it amounts to: neither the pending timer nor the awaited rm lasts forever.
LiveFairness ==
    /\ []<>(call[1].timer # "pending")
    /\ []<>(call[1].pc # "rm")
    /\ WF_vars(MkdtempFails(1) \/ \E spawnOk \in BOOLEAN : MkdtempOk(1, spawnOk))

SpecLive == Init /\ [][NextLive]_vars /\ LiveFairness

(***************************************************************************)
(* SpecModel: MaxCalls TEXT_LARGE / TEXT_SMALL calls, interleaved, each    *)
(* running to completion (Spec covers the timeout and the failures)        *)
(***************************************************************************)
NextModel ==
    \E c \in Calls :
        \/ \E st \in SettingsTimeouts, svc \in {"svcA", NO_SERVICE} :
              ModelCall(c, st, svc)
        \/ MkdtempOk(c, TRUE)
        \/ \E text \in ConcStdout : StdoutEnd(c, text)
        \/ call[c].outDone /\ StderrEnd(c, <<>>)
        \/ call[c].pc = "race" /\ call[c].errDone /\ ProcExited(c, 0)
        \/ RmDone(c, TRUE)

SpecModel == Init /\ [][NextModel]_vars

(***************************************************************************)
(* SpecAuth: checkAuth on every credentials file and clock                 *)
(***************************************************************************)
Tokens == {UNDEFINED, Some(<<>>), Some(<<"t", "o", "k">>)}
Expiries == {UNDEFINED, Some(0), Some(5), Some(10), Some(20), Some(40)}
Subscriptions == {UNDEFINED, Some(<<"p", "r", "o">>)}
Clocks == {5, 10, 20, 30}
CredentialFiles ==
    {MissingFile, MalformedFile, NullFile, NoOAuthFile}
    \cup {OAuthFile(t, e, s) : t \in Tokens, e \in Expiries, s \in Subscriptions}

NextAuth ==
    \E file \in CredentialFiles, now \in Clocks : CheckAuth(file, now)

SpecAuth == Init /\ [][NextAuth]_vars

(***************************************************************************)
(* SpecText: isAuthError and the prompt truncation on their inputs         *)
(***************************************************************************)
MessagePieces ==
    {<<"U", "n", "a", "u", "t", "h", "o", "r", "i", "z", "e", "d">>,
     <<"T", "O", "K", "E", "N", " ">>,
     <<"e", "x", "p", "i", "r", "e", "d">>,
     <<"x">>,
     <<"N", "e", "t", "w", "o", "r", "k", " ", "t", "i", "m", "e", "o", "u", "t">>}

\* A message as a failing CLI prints it.
REAUTHENTICATE_MESSAGE ==
    <<"E", "r", "r", "o", "r", ":", " ", "O", "A", "u", "t", "h", " ", "t", "o", "k", "e", "n", " ", "h", "a", "s", " ", "e", "x", "p", "i", "r", "e", "d", ",", " ", "p", "l", "e", "a", "s", "e", " ", "r", "e", "-", "a", "u", "t", "h", "e", "n", "t", "i", "c", "a", "t", "e">>

RECURSIVE MessagesOf(_)
MessagesOf(n) ==
    IF n = 0 THEN {<<>>}
    ELSE LET S == MessagesOf(n - 1) IN S \cup {s \o p : s \in S, p \in MessagePieces}

Messages == MessagesOf(MaxPieces) \cup {REAUTHENTICATE_MESSAGE}
PromptLengths == {0, 1, 49999, 50000, 50001, 100000, 123456}

NextText ==
    \/ \E message \in Messages : Classify(message)
    \/ \E length \in PromptLengths : Truncate(length)

SpecText == Init /\ [][NextText]_vars

(***************************************************************************)
(* SpecWrap: the wrapper of the direct path and its removal                *)
(***************************************************************************)
\* What a process may print: a head, up to MaxPieces pieces of text, a tail.
OutputHeads ==
    {<<>>, <<" ">>, TAG_OPEN, TAG_CLOSE,
     <<"<", "R", "e", "s", "p", "o", "n", "s", "e", ">">>}
OutputTails ==
    {<<>>, <<"\n">>, TAG_CLOSE, TAG_OPEN,
     <<"<", "/", "R", "E", "S", "P", "O", "N", "S", "E", ">">>}
OutputPieces == {<<"o", "k">>, <<" ">>}

RECURSIVE OutputBodies(_)
OutputBodies(n) ==
    IF n = 0 THEN {<<>>}
    ELSE LET S == OutputBodies(n - 1)
         IN  S \cup {s \o p : s \in S, p \in OutputPieces}

Outputs ==
    {h \o b \o t : h \in OutputHeads, b \in OutputBodies(MaxPieces),
                   t \in OutputTails}

NextWrap == \E output \in Outputs : WrapStrip(output)

SpecWrap == Init /\ [][NextWrap]_vars

(***************************************************************************)
(* SpecArgs: the argument vector of invoke on its options                  *)
(***************************************************************************)
ToolNames == {<<"R", "e", "a", "d">>, <<"E", "d", "i", "t">>}

RECURSIVE ToolArraysOf(_)
ToolArraysOf(n) ==
    IF n = 0 THEN {<<>>}
    ELSE LET S == ToolArraysOf(n - 1)
         IN  S \cup {a \o <<name>> : a \in S, name \in ToolNames}

ToolOptions ==
    {UNDEFINED, Some(StringTools(<<>>)),
     Some(StringTools(<<"R", "e", "a", "d", ",", "G", "l", "o", "b">>))}
    \cup {Some(ArrayTools(a)) : a \in ToolArraysOf(MaxPieces)}
ModelOptions == {UNDEFINED, Some(SONNET), Some(OPUS), Some(HAIKU)}
InvokeOptions ==
    [length : {0, 50001}, model : ModelOptions, allowedTools : ToolOptions,
     disallowedTools : ToolOptions]

NextArgs == \E options \in InvokeOptions : BuildArgs(options)

SpecArgs == Init /\ [][NextArgs]_vars

(***************************************************************************)
(* Claims                                                                  *)
(***************************************************************************)
Done(c) == call[c].pc = "done"
ServiceInvoke(c) == call[c].entry \in {"invoke", "research"}
TextEntry(c) == call[c].entry \in {"generateText", "model"}
\* The process and both of its streams completed before the timer fired.
Completed(c) == call[c].winner = "completed"
\* The text an outcome carries for its failure: stderr of a result, the
\* message of a raised error.
FailureText(o) == IF o.kind = "error" THEN o.message ELSE o.stderr
\* a occurs in seq before b does.
Before(seq, a, b) ==
    \E i \in 1..Len(seq) : seq[i] = a /\ \A j \in 1..i : seq[j] # b

\* C1: once a call that created a temp workspace has returned or thrown,
\* that directory no longer exists, whatever the outcome was.
C1_WorkspaceGoneAfterReturn ==
    \A c \in Calls :
        (Done(c) /\ call[c].tempDir # NO_DIR) => call[c].tempDir \notin disk

\* C2: a call of invoke or research that is given a working directory
\* creates no directory and deletes none: it runs no mkdtemp and no rm, and
\* the directories on disk stay as they were.
C2_ExplicitCwdTouchesNoDirectory ==
    \A c \in Calls :
        (ServiceInvoke(c) /\ Truthy(call[c].cwd)) =>
            /\ Count(call[c].trace, "mkdtemp") = 0
            /\ Count(call[c].trace, "rm") = 0
            /\ call[c].tempDir = NO_DIR
            /\ disk = {PROJECT_DIR}

C2_Witness ==
    \E c \in Calls :
        /\ Done(c) /\ call[c].entry = "research" /\ call[c].cwd = PROJECT_DIR
        /\ call[c].winner = "timeout"

\* C3: invoke never raises: whenever invoke (or research) has returned, the
\* caller holds a result object, also after a failed mkdtemp, spawn, stream
\* read, timer expiry or failed removal of the workspace; and nothing is
\* handed over before the call is done.
C3_InvokeNeverRaises ==
    \A c \in Calls :
        ServiceInvoke(c) =>
            /\ Done(c) => call[c].outcome.kind = "result"
            /\ ~Done(c) => call[c].outcome.kind = "none"

C3_Witness ==
    \E c \in Calls :
        /\ Done(c) /\ call[c].entry = "invoke" /\ call[c].rmFailed
        /\ call[c].winner = "internal" /\ call[c].outcome.kind = "result"

\* C4: when the timer wins the race, the outcome carries the timeout
\* message naming the threshold in seconds (a result then has exit code 1 and
\* no output), no completed run carries a timeout message, and a kill was
\* attempted before the call returned.
C4_TimeoutReportedAfterKill ==
    \A c \in Calls :
        /\ (Done(c) /\ call[c].winner = "timeout") =>
              /\ call[c].outcome.kind \in {"result", "error"}
              /\ EndsWith(FailureText(call[c].outcome),
                          MSG_TIMEOUT_HEAD \o SecondsToString(call[c].timeout) \o <<"s">>)
              /\ call[c].outcome.kind = "result" =>
                    call[c].outcome.exitCode = 1 /\ call[c].outcome.output = <<>>
              /\ Before(call[c].trace, "kill", "return")
        /\ (call[c].winner = "timeout" /\ ~Done(c)) =>
              /\ call[c].outcome.kind = "none"
              /\ Count(call[c].trace, "kill") > 0
        /\ (Done(c) /\ Completed(c)) =>
              ~Includes(FailureText(call[c].outcome), MSG_TIMEOUT_HEAD)

C4_Witness ==
    \E c \in Calls :
        /\ Done(c) /\ call[c].winner = "timeout" /\ call[c].timeout = 1500
        /\ call[c].entry = "invoke" /\ call[c].proc = "running"

\* C5: exactly one of the two paths goes on after the race: a call whose
\* completion path won never runs the timer callback, then or later, and its
\* timer is cancelled; a call whose timeout path won ran the callback once
\* and never the completion path.
C5_OneWinner ==
    \A c \in Calls :
        /\ Completed(c) =>
              /\ Count(call[c].trace, "timerFired") = 0
              /\ call[c].timer = "cleared"
              /\ Count(call[c].trace, "catch") = 0
        /\ call[c].winner = "timeout" =>
              /\ Count(call[c].trace, "timerFired") = 1
              /\ call[c].timer = "fired"
              /\ Count(call[c].trace, "catch") = 1
        /\ call[c].pc \in {"rm", "done"} =>
              call[c].winner \in {"completed", "timeout", "internal"}
        /\ Count(call[c].trace, "timerFired") > 0 => call[c].winner = "timeout"

C5_Witness ==
    \E c \in Calls :
        /\ Done(c) /\ call[c].winner = "timeout" /\ call[c].proc = "exited"

\* The auth branch of invoke ran.
AuthBranch(c) == Count(call[c].trace, "handleAuthError") > 0

C7_AuthReportAtMostOnce ==
    \A i \in Instances : authLogs[i] <= 1

C7_Witness ==
    \E c, d \in Calls :
        /\ c # d /\ Done(c) /\ Done(d)
        /\ AuthBranch(c) /\ AuthBranch(d)
        /\ call[c].inst = call[d].inst
        /\ authLogs[call[c].inst] = 1

\* C8: a generateText call whose process ended with a non-zero exit code
\* raises an error whose message carries the trimmed stderr, or the trimmed
\* stdout when stderr is empty, on the service path as on the direct path.
C8_NonZeroExitCarriesOutput ==
    \A c \in Calls :
        (TextEntry(c) /\ Done(c) /\ Completed(c) /\ call[c].code \notin {0, NullCode}) =>
            /\ call[c].outcome.kind = "error"
            /\ Includes(call[c].outcome.message,
                        OrElse(Trim(call[c].err), Trim(call[c].out)))

\* C9: a provider generateText call whose process exited 0 with non-empty
\* output returns text that starts with <response>, ends with </response>,
\* and holds each marker once.
C9_ProviderTextWrappedOnce ==
    \A c \in Calls :
        (call[c].entry = "model" /\ Done(c) /\ Completed(c)
         /\ call[c].code = 0 /\ Trim(call[c].out) # <<>>) =>
            /\ call[c].outcome.kind = "text"
            /\ StartsWith(call[c].outcome.text, TAG_OPEN)
            /\ EndsWith(call[c].outcome.text, TAG_CLOSE)
            /\ Occurrences(call[c].outcome.text, TAG_OPEN) = 1
            /\ Occurrences(call[c].outcome.text, TAG_CLOSE) = 1

\* C10: a generateText call whose process exited 0 with output that is
\* empty after trimming raises an EmptyOutput error, on the service path as
\* on the direct path.
C10_EmptyOutputRaises ==
    \A c \in Calls :
        (TextEntry(c) /\ Done(c) /\ Completed(c)
         /\ call[c].code = 0 /\ Trim(call[c].out) = <<>>) =>
            /\ call[c].outcome.kind = "error"
            /\ StartsWith(call[c].outcome.message, MSG_EMPTY_KIND)

C10_Witness ==
    \E c \in Calls :
        /\ Done(c) /\ call[c].entry = "model" /\ call[c].path = "service"
        /\ Completed(c) /\ call[c].code = 0 /\ call[c].out = <<" ">>
        /\ call[c].outcome.kind = "error"

\* C11 (as stated): a generateText call that returns, returns a non-empty
\* string, on the service path (wrapper stripped) as on the direct path.
C11_ReturnedTextNonEmpty ==
    \A c \in Calls :
        (TextEntry(c) /\ Done(c) /\ call[c].outcome.kind = "text") =>
            call[c].outcome.text # <<>>

\* The outcome of the call was determined at some place of seq before place i.
DeterminedBefore(seq, i) ==
    \E k \in 1..(i - 1) : seq[k] \in {"classify", "catch"}

\* C12: the teardown lies between the outcome and the return: nothing reaches
\* the caller before the call is done; when it is done the timer is not
\* pending, a kill was attempted on a spawned process after the outcome was
\* determined, the removal of a created workspace was started after the
\* outcome was determined and has finished (removed, or failed and logged),
\* and the return is the last thing the call did.
C12_TeardownBetweenOutcomeAndReturn ==
    \A c \in Calls :
        LET t == call[c].trace
        IN  /\ ~Done(c) => call[c].outcome.kind = "none"
            /\ \A i \in 1..Len(t) : t[i] = "rm" => DeterminedBefore(t, i)
            /\ Done(c) =>
                  /\ t[Len(t)] = "return"
                  /\ Count(t, "return") = 1
                  /\ DeterminedBefore(t, Len(t))
                  /\ call[c].timer # "pending"
                  /\ call[c].proc # "none" =>
                        \E i \in 1..Len(t) : t[i] = "kill" /\ DeterminedBefore(t, i)
                  /\ call[c].tempDir # NO_DIR =>
                        /\ Count(t, "rm") = 1
                        /\ call[c].tempDir \notin disk \/ call[c].rmFailed

C12_Witness ==
    \E c \in Calls :
        /\ Done(c) /\ call[c].path = "direct" /\ call[c].winner = "internal"
        /\ call[c].proc # "none" /\ call[c].tempDir # NO_DIR
        /\ call[c].timer = "cleared" /\ call[c].tempDir \notin disk

\* C13 (as stated): when a call has returned or thrown, the child process it
\* spawned is no longer running.
C13_NoOrphanAfterReturn ==
    \A c \in Calls : Done(c) => call[c].proc # "running"

\* C14 (as stated): checkAuth raises nothing; for credentials whose expiry
\* lies strictly before the clock, 0 included, it returns authenticated =
\* false and needsLogin = true; for a missing file the same, with the error
\* field set.
C14_PastExpiryNotAuthenticated ==
    LET f == authCheck.file
        st == authCheck.status
    IN  st.kind # "none" =>
            /\ st.kind = "status"
            /\ (f.oauth /\ TruthyString(f.accessToken) /\ f.expiresAt # UNDEFINED
                /\ f.expiresAt[1] < authCheck.now) =>
                  ~st.authenticated /\ st.needsLogin
            /\ f.kind = "missing" =>
                  ~st.authenticated /\ st.needsLogin /\ st.error # UNDEFINED

\* The credentials give no usable token: no file, no JSON, no OAuth section,
\* or no access token.
NoUsableToken(f) ==
    f.kind # "object" \/ ~f.oauth \/ ~TruthyString(f.accessToken)

\* C15 (as stated): checkAuth never raises, and for a missing file, malformed
\* content, a missing OAuth section and a missing or empty access token it
\* returns authenticated = false and needsLogin = true with an error string.
C15_EveryFailureHasDiagnostic ==
    LET f == authCheck.file
        st == authCheck.status
    IN  st.kind # "none" =>
            /\ st.kind = "status"
            /\ NoUsableToken(f) =>
                  ~st.authenticated /\ st.needsLogin /\ st.error # UNDEFINED

\* C15 (amended): checkAuth never raises; in each of those cases it returns
\* authenticated = false and needsLogin = true; the error string is set
\* exactly when the file could not be read or parsed, and is absent when the
\* OAuth section or the access token is missing or empty.
C15_DiagnosticOnlyWhenUnreadable ==
    LET f == authCheck.file
        st == authCheck.status
    IN  st.kind # "none" =>
            /\ st.kind = "status"
            /\ NoUsableToken(f) => ~st.authenticated /\ st.needsLogin
            /\ st.error # UNDEFINED <=> f.kind # "object"
            /\ st.error # UNDEFINED => st.error[1] # <<>>

C15_Witness ==
    /\ authCheck.file.kind = "object" /\ authCheck.file.oauth
    /\ authCheck.file.accessToken = Some(<<>>)
    /\ authCheck.status.kind = "status" /\ authCheck.status.needsLogin
    /\ authCheck.status.error = UNDEFINED

UpperChar(ch) ==
    IF \E i \in 1..Len(LOWER) : LOWER[i] = ch
    THEN UPPER[CHOOSE i \in 1..Len(LOWER) : LOWER[i] = ch]
    ELSE ch
ToUpperCase(s) == [i \in 1..Len(s) |-> UpperChar(s[i])]

\* p occurs in s when letters are compared without regard to case.
OccursIgnoringCase(s, p) ==
    \E i \in 0..(Len(s) - Len(p)) :
        \A j \in 1..Len(p) : LowerChar(s[i + j]) = LowerChar(p[j])

Affixes == {<<>>, <<"x">>, <<"T", "O", "K", "E", "N", " ">>}

\* C16: isAuthError(text) is true exactly when a pattern occurs in text
\* without regard to case: the verdict is the same for the text in upper and
\* in lower case, stays true under any prefix and suffix, and is false for
\* the empty string.
C16_CaseInsensitiveSubstring ==
    classified.called =>
        LET m == classified.message
        IN  /\ classified.verdict <=>
                  \E k \in 1..Len(AUTH_ERROR_PATTERNS) :
                      OccursIgnoringCase(m, AUTH_ERROR_PATTERNS[k])
            /\ classified.verdict = isAuthError(ToUpperCase(m))
            /\ classified.verdict = isAuthError(ToLowerCase(m))
            /\ classified.verdict =>
                  \A a \in Affixes, b \in Affixes : isAuthError(a \o m \o b)
            /\ m = <<>> => ~classified.verdict

C16_Witness ==
    /\ classified.called /\ classified.verdict
    /\ classified.message =
          <<"T", "O", "K", "E", "N", " ", "e", "x", "p", "i", "r", "e", "d">>

\* C17: the prompt handed to the process is a suffix of the original, never
\* longer than the cap: the original when it fits, else its last
\* MAX_PROMPT_LENGTH characters.
C17_TruncatedIsCapSizedTail ==
    truncated.called =>
        LET n == truncated.length
            sl == truncated.slice
        IN  /\ 0 <= sl.from /\ sl.from <= sl.to /\ sl.to = n
            /\ sl.to - sl.from <= MAX_PROMPT_LENGTH
            /\ n <= MAX_PROMPT_LENGTH => sl.from = 0
            /\ n > MAX_PROMPT_LENGTH => sl.to - sl.from = MAX_PROMPT_LENGTH

C17_Witness ==
    /\ truncated.called /\ truncated.length = 123456
    /\ truncated.slice = [from |-> 73456, to |-> 123456]

\* C18: what the caller gets when the removal of the workspace ends is what
\* the call had determined before the removal, whether the removal succeeded
\* or failed.
C18_RemovalFailureNotOutcome ==
    [][\A c \in Calls :
          (call[c].pc = "rm" /\ call'[c].pc = "done") =>
              call'[c].outcome = EntryOutcome(call[c])]_vars

C18_Witness ==
    \E c \in Calls :
        /\ Done(c) /\ call[c].rmFailed /\ call[c].path = "direct"
        /\ call[c].outcome.kind = "text"

\* The call holds a workspace it created and has not returned yet.
Live(c) == call[c].tempDir # NO_DIR /\ call[c].pc \in {"race", "rm"}

\* C19: no two live calls hold the same workspace, the workspace of a call
\* exists as long as its process may run in it, and a directory leaves the
\* disk only in the teardown of the call that created it, while no other
\* live call holds it.
C19_WorkspaceOwnedByOne ==
    /\ [](\A c \in Calls :
             /\ \A d \in Calls \ {c} :
                   (Live(c) /\ Live(d)) => call[c].tempDir # call[d].tempDir
             /\ Live(c) => call[c].tempDir \in disk)
    /\ [][\A dir \in disk \ disk' :
             \E c \in Calls :
                 /\ call[c].pc = "rm" /\ call[c].tempDir = dir
                 /\ call'[c].pc = "done"
                 /\ \A d \in Calls \ {c} : ~(Live(d) /\ call[d].tempDir = dir)]_vars

C19_Witness ==
    \E c, d \in Calls :
        /\ Done(c) /\ call[c].tempDir # NO_DIR /\ ~call[c].rmFailed
        /\ call[d].pc = "race" /\ call[d].tempDir \in disk
        /\ call[d].tempDir # call[c].tempDir

\* C20: on the completion path the timer is cancelled before the outcome is
\* classified; no timer is pending while the workspace is removed or once
\* the call has returned, so the timer callback, and its kill, never runs
\* after the return.
C20_NoTimerPendingAtReturn ==
    \A c \in Calls :
        LET t == call[c].trace
        IN  /\ Completed(c) =>
                  /\ Before(t, "clearTimeout", "classify")
                  /\ Count(t, "classify") = 1
            /\ call[c].pc \in {"rm", "done"} => call[c].timer # "pending"
            /\ Done(c) => \A i \in 1..Len(t) :
                             t[i] \in {"timerFired", "kill"} =>
                                 \E j \in (i + 1)..Len(t) : t[j] = "return"

C20_Witness ==
    \E c \in Calls :
        /\ Done(c) /\ Completed(c) /\ call[c].entry = "generateText"
        /\ call[c].timer = "cleared" /\ call[c].tempDir # NO_DIR

\* invoke failed before a process existed: mkdtemp rejected or spawn threw.
FailedBeforeProcess(c) ==
    /\ call[c].path = "service" /\ call[c].winner = "internal"
    /\ Count(call[c].trace, "spawn") = 0

C22_AuthFailureNeverReturnsText ==
    \A c \in Calls :
        (call[c].path = "service" /\ AuthBranch(c)) =>
            /\ call[c].pending.kind = "result"
            /\ call[c].pending.output = <<>>
            /\ call[c].pending.stderr # <<>>
            /\ (Done(c) /\ TextEntry(c)) =>
                  /\ call[c].outcome.kind = "error"
                  /\ call[c].outcome.message # <<>>

C22_Witness ==
    \E c \in Calls :
        /\ Done(c) /\ call[c].entry = "generateText" /\ AuthBranch(c)
        /\ call[c].code = 0 /\ call[c].pending.exitCode = 0
        /\ call[c].outcome.kind = "error"

\* The call in slot c runs handleAuthError in this step.
ReportsAuthError(c) ==
    Count(call'[c].trace, "handleAuthError") > Count(call[c].trace, "handleAuthError")

\* C23: the report flag of an instance only goes from false to true; it
\* changes only when a call on that very instance meets an authentication
\* failure; a report is logged exactly by the step that sets the flag, so
\* once the flag is set every later failure on the instance is suppressed.
C23_ReportFlagLatchesPerInstance ==
    /\ [](\A i \in Instances : authErrorEmitted[i] <=> authLogs[i] = 1)
    /\ [][\A i \in Instances :
             /\ authErrorEmitted[i] =>
                   authErrorEmitted'[i] /\ authLogs'[i] = authLogs[i]
             /\ authErrorEmitted'[i] # authErrorEmitted[i] =>
                   \E c \in Calls : call'[c].inst = i /\ ReportsAuthError(c)
             /\ (\E c \in Calls : call'[c].inst = i /\ ReportsAuthError(c)) =>
                   authErrorEmitted'[i]]_vars

C23_Witness ==
    \E c, d \in Calls :
        /\ c # d
        /\ Done(c) /\ AuthBranch(c) /\ call[c].inst = "svcA"
        /\ Done(d) /\ AuthBranch(d) /\ call[d].inst = "svcB"
        /\ authLogs["svcA"] = 1 /\ authLogs["svcB"] = 1

\* C24: every call that was started returns, also when the process never
\* exits and its streams never end, given that the timer fires unless it is
\* cancelled and that mkdtemp and rm settle.
C24_EveryCallReturns ==
    \A c \in Calls : (call[c].pc # "idle") ~> Done(c)

C24_Witness ==
    \E c \in Calls :
        /\ Done(c) /\ call[c].path = "direct" /\ call[c].winner = "timeout"
        /\ call[c].proc = "running" /\ call[c].timeout = 2500

\* The timeout getProvider reads from the settings of a caller.
SettingsTimeout(st) == IF st = UNDEFINED_TIMEOUT THEN 120000 ELSE st

\* C25: at most one provider is ever constructed; it is constructed by the
\* first TEXT_LARGE / TEXT_SMALL call with the timeout of that caller's
\* settings (120000 when absent), and no later call changes it.
C25_ProviderSingleton ==
    /\ [](/\ providersConstructed <= 1
          /\ providerInstance.constructed <=> providersConstructed = 1
          /\ providerInstance.constructed <=>
                \E c \in Calls : call[c].entry = "model")
    /\ [][/\ providerInstance.constructed => providerInstance' = providerInstance
          /\ (~providerInstance.constructed /\ providerInstance'.constructed) =>
                \E c \in Calls :
                    /\ call[c].pc = "idle" /\ call'[c].entry = "model"
                    /\ providerInstance'.timeout =
                          SettingsTimeout(call'[c].settings)]_vars

C25_Witness ==
    \E c, d \in Calls :
        /\ call[c].entry = "model" /\ call[c].settings = 2500
        /\ call[d].entry = "model" /\ call[d].settings = UNDEFINED_TIMEOUT
        /\ call[c].path = "direct" /\ call[d].path = "direct"
        /\ call[c].timeout = 120000 /\ call[d].timeout = 120000
        /\ providerInstance.timeout = 120000 /\ providersConstructed = 1

\* C26: a provider generateText call spawns at most one process and creates
\* at most one workspace; it runs the service's invoke exactly when the
\* runtime has the service, and its own direct invocation exactly when it
\* has none.
C26_ProviderOneInvocation ==
    \A c \in Calls :
        call[c].entry = "model" =>
            /\ Count(call[c].trace, "spawn") <= 1
            /\ Count(call[c].trace, "mkdtemp") <= 1
            /\ call[c].path = "service" <=> call[c].inst # NO_SERVICE
            /\ call[c].path = "direct" <=> call[c].inst = NO_SERVICE
            /\ Done(c) =>
                  /\ Count(call[c].trace, "spawn") = 1
                  /\ call[c].outcome =
                        (IF call[c].inst # NO_SERVICE
                         THEN GenerateTextOutcome(
                                 InvokeResult(call[c].out, call[c].err, call[c].code))
                         ELSE DirectOutcome(call[c].out, call[c].err, call[c].code))

C26_Witness ==
    \E c, d \in Calls :
        /\ Done(c) /\ call[c].entry = "model" /\ call[c].inst = "svcA"
        /\ Done(d) /\ call[d].entry = "model" /\ call[d].inst = NO_SERVICE
        /\ call[c].outcome.text = <<"o", "k">>
        /\ StartsWith(call[d].outcome.text, TAG_OPEN)

\* The message of the error a direct invocation raised first.
OriginalMessage(c) ==
    LET t == call[c].trace
    IN  IF call[c].winner = "timeout"
        THEN MSG_TIMEOUT_HEAD \o SecondsToString(call[c].timeout) \o <<"s">>
        ELSE IF call[c].winner = "completed"
        THEN IF call[c].code # 0
             THEN MSG_CLAUDE_CODE_ERROR
                  \o OrElse(Trim(call[c].err), OrElse(Trim(call[c].out), MSG_UNKNOWN_ERROR))
             ELSE MSG_EMPTY_OUTPUT
        ELSE IF Count(t, "spawnThrows") > 0 THEN SPAWN_ERROR
        ELSE IF Count(t, "spawn") > 0 THEN STREAM_ERROR
        ELSE MKDTEMP_ERROR

\* C27: on the direct path the caller gets the error that was raised first,
\* with its message unchanged, and gets it only after the timer is no longer
\* pending, the kill was attempted on a spawned process and the removal of
\* the workspace has finished.
C27_DirectErrorUnchangedAfterTeardown ==
    \A c \in Calls :
        call[c].path = "direct" =>
            LET t == call[c].trace
            IN  /\ ~Done(c) => call[c].outcome.kind = "none"
                /\ (Done(c) /\ call[c].winner # "completed") =>
                      call[c].outcome.kind = "error"
                /\ (Done(c) /\ call[c].outcome.kind = "error") =>
                      /\ call[c].outcome.message = OriginalMessage(c)
                      /\ call[c].timer # "pending"
                      /\ call[c].proc # "none" => Before(t, "kill", "return")
                      /\ call[c].tempDir # NO_DIR =>
                            /\ Before(t, "rm", "return")
                            /\ call[c].tempDir \notin disk \/ call[c].rmFailed

C27_Witness ==
    \E c \in Calls :
        /\ Done(c) /\ call[c].path = "direct" /\ call[c].winner = "timeout"
        /\ call[c].outcome.kind = "error" /\ call[c].rmFailed

\* C28 (as stated): a result of invoke has exit code 0 only when the process
\* itself exited with code 0, never after a timeout, an internal error, or a
\* non-zero or indeterminate exit code.
C28_ExitZeroOnlyFromProcess ==
    \A c \in Calls :
        (call[c].path = "service" /\ call[c].pending.kind = "result"
         /\ call[c].pending.exitCode = 0) =>
            Completed(c) /\ call[c].code = 0

\* C29: every AuthStatus of checkAuth has authenticated = not needsLogin.
C29_AuthenticatedIffNoLoginNeeded ==
    authCheck.status.kind = "status" =>
        authCheck.status.authenticated = ~authCheck.status.needsLogin

C29_Witness ==
    /\ authCheck.status.kind = "status"
    /\ authCheck.file.oauth /\ authCheck.file.expiresAt = UNDEFINED
    /\ authCheck.status.authenticated /\ ~authCheck.status.needsLogin

\* C30 (as stated): the text ClaudeCodeService.generateText returns neither
\* starts with <response> nor ends with </response>, in any letter case, and
\* stripping it once more leaves it unchanged.
C30_ReturnedTextFreeOfWrapper ==
    \A c \in Calls :
        (TextEntry(c) /\ call[c].path = "service" /\ Done(c)
         /\ call[c].outcome.kind = "text") =>
            LET txt == call[c].outcome.text
            IN  /\ ~StartsWith(ToLowerCase(txt), TAG_OPEN)
                /\ ~EndsWith(ToLowerCase(txt), TAG_CLOSE)
                /\ Trim(StripClose(StripOpen(Trim(txt)))) = txt

\* The text the direct path was given, trimmed.
WrapperInput == Trim(wrapper.output)

\* C31: for every non-empty trimmed text that does not start with
\* <response>, stripping the wrapped form as ClaudeCodeService.generateText
\* does gives the text back; and a text the direct path returned is returned
\* unchanged when the direct path is given it again.
C31_WrapStripInverse ==
    (wrapper.called /\ WrapperInput # <<>>) =>
        /\ wrapper.wrapped.kind = "text"
        /\ wrapper.rewrapped = wrapper.wrapped
        /\ ~StartsWith(WrapperInput, TAG_OPEN) =>
              /\ wrapper.wrapped.text = WRAP_HEAD \o WrapperInput \o WRAP_TAIL
              /\ wrapper.stripped = Text(WrapperInput)

C31_Witness ==
    /\ wrapper.called
    /\ WrapperInput =
          <<"<", "R", "e", "s", "p", "o", "n", "s", "e", ">">> \o TAG_CLOSE
    /\ wrapper.stripped = Text(WrapperInput)
    /\ wrapper.rewrapped = wrapper.wrapped

\* A provider call whose process ran to completion.
ModelCompleted(c) ==
    call[c].entry = "model" /\ Done(c) /\ call[c].winner = "completed"

\* C32 (as stated): for every behaviour of the process, a provider call
\* through the service returns text exactly when the direct invocation
\* would, and a direct one exactly when the call through the service would;
\* after a timeout both raise.
C32_PathsAgreeOnSuccess ==
    \A c \in Calls :
        /\ ModelCompleted(c) =>
              LET direct == DirectOutcome(call[c].out, call[c].err, call[c].code)
                  service == GenerateTextOutcome(
                                InvokeResult(call[c].out, call[c].err, call[c].code))
              IN  /\ call[c].outcome.kind \in {"text", "error"}
                  /\ call[c].path = "service" =>
                        (call[c].outcome.kind = "text" <=> direct.kind = "text")
                  /\ call[c].path = "direct" =>
                        (call[c].outcome.kind = "text" <=> service.kind = "text")
        /\ (call[c].entry = "model" /\ Done(c) /\ call[c].winner = "timeout") =>
              call[c].outcome.kind = "error"

\* The options name a list of tools.
Supplied(tools) == tools # UNDEFINED

\* C33 (as stated): the argument vector is claude, -p, the truncated prompt,
\* --model and the model, then --allowedTools and its value exactly when an
\* allow list was supplied, then --disallowedTools and its value exactly
\* when a deny list was supplied; an array is joined with commas.
C33_ArgumentVector ==
    spawnArgs.called =>
        LET o == spawnArgs.options
            allowed == IF Supplied(o.allowedTools)
                       THEN <<ARG_ALLOWED_TOOLS, SerializeTools(o.allowedTools)>>
                       ELSE <<>>
            disallowed == IF Supplied(o.disallowedTools)
                          THEN <<ARG_DISALLOWED_TOOLS,
                                 SerializeTools(o.disallowedTools)>>
                          ELSE <<>>
        IN  /\ Len(spawnArgs.args) = 5 + Len(allowed) + Len(disallowed)
            /\ spawnArgs.args[1] = ARG_CLAUDE /\ spawnArgs.args[2] = ARG_P
            /\ spawnArgs.args[3] = Slice(o.length, 0 - MAX_PROMPT_LENGTH)
            /\ spawnArgs.args[4] = ARG_MODEL
            /\ spawnArgs.args[5] = (IF o.model = UNDEFINED THEN SONNET ELSE o.model[1])
            /\ SubSeq(spawnArgs.args, 6, Len(spawnArgs.args)) = allowed \o disallowed

=============================================================================
